---------------------------- MODULE Spec2Model ----------------------------
(***************************************************************************)
(* A model of the Qdrant connector and the custom FastEmbed provider of    *)
(* mcp-server-qdrant (src/src/mcp_server_qdrant/qdrant.py and              *)
(* embeddings/custom_fastembed.py).                                        *)
(*                                                                         *)
(* Texts are sequences of one-character strings.  Optional values are      *)
(* None / Some(v).  Every await of a remote-store or backend call is one   *)
(* atomic step of the calling task; tasks interleave between awaits, as    *)
(* coroutines of one asyncio loop do.                                      *)
(***************************************************************************)
EXTENDS Integers, Sequences, FiniteSets, TLC

None == [some |-> FALSE]
Some(v) == [some |-> TRUE, v |-> v]

\* Python truthiness of an optional value: None and the empty value are falsy.
TruthyText(o) == o.some /\ o.v # <<>>
TruthyDict(o) == o.some /\ o.v # {}
TruthyStr(o) == o.some /\ o.v # ""

(***************************************************************************)
(* Bounds of the model.                                                    *)
(***************************************************************************)
\* total number of connector operations begun in one behaviour
MaxOps == 2
\* number of providers constructed in one process
MaxProviders == 2
\* number of times one Entry is enriched
MaxEnrich == 2
\* number of points of other writers in a searched collection
MaxForeign == 2
\* longest list handed to embed_documents in the provider specification
MaxDocs == 2

Tasks == {1, 2}
CollectionNames == {"c1", "c2"}

(***************************************************************************)
(* Text helpers.                                                           *)
(***************************************************************************)
UpperChars == <<"A","B","C","D","E","F","G","H","I","J","K","L","M",
                "N","O","P","Q","R","S","T","U","V","W","X","Y","Z">>
LowerChars == <<"a","b","c","d","e","f","g","h","i","j","k","l","m",
                "n","o","p","q","r","s","t","u","v","w","x","y","z">>

LowerChar(c) ==
    IF \E i \in 1..26 : UpperChars[i] = c
    THEN LowerChars[CHOOSE i \in 1..26 : UpperChars[i] = c]
    ELSE c

\* str.lower()
Lower(s) == [i \in 1..Len(s) |-> LowerChar(s[i])]

\* `sub in s`
Contains(s, sub) ==
    \E i \in 1..(Len(s) - Len(sub) + 1) : SubSeq(s, i, i + Len(sub) - 1) = sub

IsDigit(c) == c \in {"0","1","2","3","4","5","6","7","8","9"}

DigitChars == <<"0","1","2","3","4","5","6","7","8","9">>

\* str(n) of a non-negative int
RECURSIVE StrInt(_)
StrInt(n) == IF n < 10 THEN <<DigitChars[n + 1]>>
             ELSE StrInt(n \div 10) \o <<DigitChars[(n % 10) + 1]>>

\* A metadata value is a str or an int; str(value) coerces it to text.
StrVal(t) == [kind |-> "str", v |-> t]
IntVal(n) == [kind |-> "int", n |-> n]
Str(val) == IF val.kind = "str" THEN val.v ELSE StrInt(val.n)

\* A dict is a set of <<key, value>> pairs with distinct keys.
HasKey(d, k) == \E kv \in d : kv[1] = k
Get(d, k) == (CHOOSE kv \in d : kv[1] = k)[2]

(***************************************************************************)
(* Entry (qdrant.py).                                                      *)
(***************************************************************************)
Entry(content, metadata, score) ==
    [content |-> content, metadata |-> metadata, similarity_score |-> score,
     platform |-> None, date |-> None]

TwitterTags == {<<"#","t","w","i","t","t","e","r">>, <<"#","t","w","e","e","t">>, <<"@">>}
InstagramTags == {<<"#","i","n","s","t","a","g","r","a","m">>, <<"#","i","n","s","t","a">>, <<"#","i","g">>}
FacebookTags == {<<"#","f","a","c","e","b","o","o","k">>, <<"#","f","b">>}
LinkedInTags == {<<"#","l","i","n","k","e","d","i","n">>, <<"#","i","n">>}
TikTokTags == {<<"#","t","i","k","t","o","k">>, <<"#","f","y","p">>, <<"#","f","o","r","y","o","u">>}
YouTubeTags == {<<"#","y","o","u","t","u","b","e">>, <<"#","y","t">>}
RedditTags == {<<"#","r","e","d","d","i","t">>, <<"/","r","/">>}
HttpTag == <<"h","t","t","p">>

AnyTag(content_lower, tags) == \E tag \in tags : Contains(content_lower, tag)

\* Faulty variant: the LinkedIn markers are tried before the Instagram ones.
DetectLinkedInBeforeInstagram(content) ==
    LET content_lower == Lower(content) IN
    IF AnyTag(content_lower, TwitterTags) THEN "Twitter/X"
    ELSE IF AnyTag(content_lower, LinkedInTags) THEN "LinkedIn"
    ELSE IF AnyTag(content_lower, InstagramTags) THEN "Instagram"
    ELSE IF AnyTag(content_lower, FacebookTags) THEN "Facebook"
    ELSE IF AnyTag(content_lower, TikTokTags) THEN "TikTok"
    ELSE IF AnyTag(content_lower, YouTubeTags) THEN "YouTube"
    ELSE IF AnyTag(content_lower, RedditTags) THEN "Reddit"
    ELSE IF Contains(content_lower, HttpTag) THEN "Web/Blog"
    ELSE "Social Media"

detect_platform(content) ==
    LET content_lower == Lower(content) IN
    IF AnyTag(content_lower, TwitterTags) THEN "Twitter/X"
    ELSE IF AnyTag(content_lower, InstagramTags) THEN "Instagram"
    ELSE IF AnyTag(content_lower, FacebookTags) THEN "Facebook"
    ELSE IF AnyTag(content_lower, LinkedInTags) THEN "LinkedIn"
    ELSE IF AnyTag(content_lower, TikTokTags) THEN "TikTok"
    ELSE IF AnyTag(content_lower, YouTubeTags) THEN "YouTube"
    ELSE IF AnyTag(content_lower, RedditTags) THEN "Reddit"
    ELSE IF Contains(content_lower, HttpTag) THEN "Web/Blog"
    ELSE "Social Media"

\* A pattern is a sequence of items: "d" stands for \d, anything else for itself.
Digits(n) == [i \in 1..n |-> "d"]
PatYMD == Digits(4) \o <<"-">> \o Digits(2) \o <<"-">> \o Digits(2)
PatMDY == Digits(2) \o <<"/">> \o Digits(2) \o <<"/">> \o Digits(4)
\* \d{1,2}/\d{1,2}/\d{2,4}: the expansions in the order a greedy,
\* backtracking matcher tries them at one position.
PatSlash(a, b, c) == Digits(a) \o <<"/">> \o Digits(b) \o <<"/">> \o Digits(c)
PatGeneric == << PatSlash(2,2,4), PatSlash(2,2,3), PatSlash(2,2,2),
                 PatSlash(2,1,4), PatSlash(2,1,3), PatSlash(2,1,2),
                 PatSlash(1,2,4), PatSlash(1,2,3), PatSlash(1,2,2),
                 PatSlash(1,1,4), PatSlash(1,1,3), PatSlash(1,1,2) >>
date_patterns == << <<PatYMD>>, <<PatMDY>>, PatGeneric >>

MatchesAt(s, i, pat) ==
    /\ i + Len(pat) - 1 <= Len(s)
    /\ \A k \in 1..Len(pat) :
          IF pat[k] = "d" THEN IsDigit(s[i + k - 1]) ELSE s[i + k - 1] = pat[k]

\* re.search(pattern, s): the leftmost match, by the first expansion that
\* matches there; None when there is none.
ReSearch(alts, s) ==
    LET hits == {i \in 1..Len(s) : \E a \in 1..Len(alts) : MatchesAt(s, i, alts[a])} IN
    IF hits = {} THEN None
    ELSE LET i == CHOOSE h \in hits : \A g \in hits : h <= g
             a == CHOOSE x \in 1..Len(alts) :
                     /\ MatchesAt(s, i, alts[x])
                     /\ \A y \in 1..(x - 1) : ~MatchesAt(s, i, alts[y])
         IN Some(SubSeq(s, i, i + Len(alts[a]) - 1))

RECURSIVE FirstPattern(_, _)
FirstPattern(content, k) ==
    IF k > Len(date_patterns) THEN None
    ELSE LET match == ReSearch(date_patterns[k], content) IN
         IF match.some THEN match ELSE FirstPattern(content, k + 1)

\* Faulty variant: the content is searched before the metadata is looked at.
ExtractDateContentFirst(content, metadata) ==
    IF FirstPattern(content, 1).some THEN FirstPattern(content, 1)
    ELSE IF TruthyDict(metadata) /\ HasKey(metadata.v, "date")
    THEN Some(Str(Get(metadata.v, "date")))
    ELSE IF TruthyDict(metadata) /\ HasKey(metadata.v, "timestamp")
    THEN Some(Str(Get(metadata.v, "timestamp")))
    ELSE IF TruthyDict(metadata) /\ HasKey(metadata.v, "created_at")
    THEN Some(Str(Get(metadata.v, "created_at")))
    ELSE None

extract_date(content, metadata) ==
    IF TruthyDict(metadata) /\ HasKey(metadata.v, "date")
    THEN Some(Str(Get(metadata.v, "date")))
    ELSE IF TruthyDict(metadata) /\ HasKey(metadata.v, "timestamp")
    THEN Some(Str(Get(metadata.v, "timestamp")))
    ELSE IF TruthyDict(metadata) /\ HasKey(metadata.v, "created_at")
    THEN Some(Str(Get(metadata.v, "created_at")))
    ELSE FirstPattern(content, 1)

\* Faulty variant: a date that is already set is cleared instead of kept.
EnrichClearingSetDate(e) ==
    LET p == IF ~TruthyStr(e.platform) THEN Some(detect_platform(e.content)) ELSE e.platform
        d == IF ~TruthyText(e.date) THEN extract_date(e.content, e.metadata) ELSE None
    IN [e EXCEPT !.platform = p, !.date = d]

enrich_metadata(e) ==
    LET p == IF ~TruthyStr(e.platform) THEN Some(detect_platform(e.content)) ELSE e.platform
        d == IF ~TruthyText(e.date) THEN extract_date(e.content, e.metadata) ELSE e.date
    IN [e EXCEPT !.platform = p, !.date = d]

(***************************************************************************)
(* The embedding backend and CustomFastEmbedProvider.                      *)
(*                                                                         *)
(* The backend's inference is outside the repository: the vector it        *)
(* returns is modelled as a value determined by the model's dimension and  *)
(* by the exact text handed to it.                                         *)
(***************************************************************************)
BackendEmbed(dim, text) == [dim |-> dim, of |-> text]

\* The default instruction prefix (abbreviated: "Instruct: ... Query: ").
DefaultQueryPrefix == <<"Q", ":", " ">>

\* __init__: self.query_prefix = query_prefix or <default>
InitQueryPrefix(query_prefix) ==
    IF TruthyText(query_prefix) THEN query_prefix.v ELSE DefaultQueryPrefix

_get_vector_dimension(model_name) ==
    IF model_name = "multilingual-e5-large-instruct" THEN 1024
    ELSE IF model_name = "multilingual-e5-base" THEN 768
    ELSE IF model_name = "multilingual-e5-small" THEN 384
    ELSE 1024

\* Faulty variant: the query is embedded as a document is, without the prefix.
QueryTextUnprefixed(p, query) == query

\* The text embed_query hands to the backend's query_embed.
QueryText(p, query) ==
    IF p.query_prefix # <<>> THEN p.query_prefix \o query ELSE query

\* The texts embed_documents hands to the backend's passage_embed.
DocumentTexts(p, documents) == documents

embed_query(p, query) == BackendEmbed(p.dim, QueryText(p, query))

embed_documents(p, documents) ==
    LET texts == DocumentTexts(p, documents) IN
    [i \in 1..Len(texts) |-> BackendEmbed(p.dim, texts[i])]

get_vector_name(p) == "text_dense"

\* simple_server.py: os.getenv("QDRANT_VECTOR_NAME", "text_dense")
simple_server_get_vector_name(e) ==
    IF e.QDRANT_VECTOR_NAME.some THEN e.QDRANT_VECTOR_NAME.v ELSE "text_dense"

\* Faulty variant: the backend's registry is never asked.
GetVectorSizeFromTable(p, lookup_ok) == _get_vector_dimension(p.model_name)

\* lookup_ok: whether the backend's model-description lookup answers; p.dim is
\* the dimension the backend's registry declares for the provider's model.
get_vector_size(p, lookup_ok) ==
    IF lookup_ok THEN p.dim ELSE _get_vector_dimension(p.model_name)

(***************************************************************************)
(* State.                                                                  *)
(***************************************************************************)
VARIABLES
    env,        \* the environment variables of the process
    versions,   \* an Entry object: as constructed, then after each enrich_metadata
    answers,    \* what detect_platform and extract_date returned for it, once called
    registry,   \* the backend's process-wide registry of custom model names
    built,      \* the constructor calls made in this process, in order
    ctor,       \* the arguments the provider was constructed with
    provider,   \* the CustomFastEmbedProvider: model_name, dim, query_prefix
    pcall,      \* the latest call made on the provider directly
    conn,       \* the QdrantConnector: _default_collection_name, _field_indexes
    remote,     \* the remote store: collection name -> None | Some(collection)
    pc,         \* per task: where its coroutine is suspended
    op,         \* per task: the operation it runs
    args,       \* per task: the arguments of that operation
    local,      \* per task: the local variables of that operation
    trace,      \* per task: the remote and backend calls the operation issued
    status,     \* per task: "running", "ok" or the error raised
    result,     \* per task: the list a search returned
    after,      \* per task: the tasks whose operation had ended when its own began
    nops,       \* operations begun so far
    nextId,     \* the source of fresh uuid4 values
    stored      \* per collection: upserts the remote store has accepted

vars == <<env, versions, answers, registry, built, ctor, provider, pcall, conn, remote, pc, op, args, local, trace, status, result,
          after, nops, nextId, stored>>

(***************************************************************************)
(* Input domains.                                                          *)
(***************************************************************************)
SomeMetadata == Some({ <<"date", StrVal(<<"d">>)>> })
StoreEntries == { Entry(<<"a">>, SomeMetadata, None), Entry(<<"@", "b">>, None, None) }
Queries == { <<"a">> }
\* search(..., limit: int = 10, ...)
DefaultLimit == 10
Limits == { 1, DefaultLimit }
\* The relevance scores the remote store reports, lowest to highest.
Scores == { 0, 1 }
BestScore == CHOOSE best \in Scores : \A x \in Scores : best >= x
CollectionArgs == { None, Some("c2") }
\* A filter keeps the points whose payload carries metadata.
Filters == { None, Some("has_metadata") }
PrefixArgs == { None, Some(<<>>), Some(<<"p">>) }
FieldIndexes == { <<>>, <<"f1", "f2">> }
\* settings.METADATA_PATH, the payload key of the caller's metadata
METADATA_PATH == "metadata"

\* no variable of interest is set in the environment
NoEnv == [QDRANT_VECTOR_NAME |-> None]
NoAnswers == [platform |-> None, date |-> None]
NoVector == [dim |-> 0, of |-> <<>>]
NoArgs == [entry |-> Entry(<<>>, None, None), collection_name |-> None,
           query |-> <<>>, limit |-> 0, query_filter |-> None]
NoLocal == [collection_name |-> "", collection_exists |-> "unknown",
            embeddings |-> <<>>, query_vector |-> NoVector, todo |-> <<>>, id |-> 0,
            search_results |-> <<>>]

Call(kind, coll) ==
    [call |-> kind, coll |-> coll, texts |-> <<>>, vname |-> "", size |-> 0,
     distance |-> "", field |-> "", id |-> 0]

(***************************************************************************)
(* The remote store (the wire contract the connector consumes).            *)
(***************************************************************************)
Exists(r, c) == r[c].some
Points(r, c) == IF r[c].some THEN r[c].v.points ELSE {}

NewCollection(vname, size) ==
    [vectors |-> [name |-> vname, size |-> size], indexes |-> {}, points |-> {}]

\* create_collection: a second creation of an existing name is rejected.
CreateOutcome(r, c) == IF Exists(r, c) THEN "already_exists" ELSE "ok"

\* upsert: insert-or-replace by id; the vector must fit the schema.
UpsertOutcome(r, c, point) ==
    IF ~Exists(r, c) THEN "not_found"
    ELSE IF point.vector.name # r[c].v.vectors.name
            \/ point.vector.vec.dim # r[c].v.vectors.size THEN "bad_vector"
    ELSE "ok"

Upserted(r, c, point) ==
    [r EXCEPT ![c] = Some([r[c].v EXCEPT
        !.points = {q \in r[c].v.points : q.id # point.id} \cup {point}])]

FilterMatch(f, point) ==
    \/ ~f.some
    \/ /\ f.v = "has_metadata"
       /\ point.payload.some
       /\ point.payload.v.metadata.some

Min(a, b) == IF a < b THEN a ELSE b

\* Every injective sequence of length k over set S.
InjSeqs(S, k) ==
    {q \in [1..k -> S] : \A i, j \in 1..k : i # j => q[i] # q[j]}

\* query_points: the `limit` best matching points by relevance, best first.
\* The scoring is the remote store's: equal vectors score equally, a vector
\* equal to the query scores highest, nothing else is assumed of it.
QueryResults(pts, query_vector, limit, f) ==
    LET matching == {q \in pts : FilterMatch(f, q)}
        k == Min(limit, Cardinality(matching))
        scorings == {sc \in [matching -> Scores] :
                        /\ \A a, b \in matching :
                              a.vector.vec = b.vector.vec => sc[a] = sc[b]
                        /\ \A a \in matching :
                              a.vector.vec = query_vector => sc[a] = BestScore}
    IN { [i \in 1..k |-> [payload |-> q[i].payload, score |-> Some(sc[q[i]])]] :
           <<sc, q>> \in {x \in scorings \X InjSeqs(matching, k) :
                /\ \A i \in 1..(k - 1) : x[1][x[2][i]] >= x[1][x[2][i + 1]]
                /\ \A a \in matching :
                      (\A i \in 1..k : x[2][i] # a) =>
                          \A i \in 1..k : x[1][x[2][i]] >= x[1][a]} }

QueryOutcome(r, c, using, query_vector) ==
    IF ~Exists(r, c) THEN "not_found"
    ELSE IF using # r[c].v.vectors.name
            \/ query_vector.dim # r[c].v.vectors.size THEN "bad_vector"
    ELSE "ok"

(***************************************************************************)
(* QdrantConnector (qdrant.py).                                            *)
(***************************************************************************)
\* Faulty variant: the default wins over the explicit argument.
ResolveDefaultFirst(collection_name, default) ==
    IF TruthyStr(default) THEN default ELSE collection_name

\* collection_name or self._default_collection_name
ResolveCollection(collection_name, default) ==
    IF TruthyStr(collection_name) THEN collection_name ELSE default

\* Faulty variants: one creates whatever the check answered, one never creates.
AlwaysCreates(collection_exists) == TRUE
NeverCreates(collection_exists) == FALSE

\* _ensure_collection_exists: `if not collection_exists:`
NeedsCreate(collection_exists) == ~collection_exists

\* Faulty variant: search goes on to query a collection that does not exist.
NeverReturnsEmpty(collection_exists) == FALSE

\* search: `if not collection_exists: return []`
ReturnsEmpty(collection_exists) == ~collection_exists

\* Faulty variant: a rejected duplicate creation is taken for success.
RaisesUnlessExists(outcome) == outcome \notin {"ok", "already_exists"}

\* No call of the connector is wrapped in try/except: whatever a remote call
\* raises leaves the operation.
Raises(outcome) == outcome # "ok"

\* Faulty variant: the identifier is not fresh.
FixedId(next) == 1

\* uuid.uuid4().hex
uuid4(next) == next

\* Faulty variant: the caller's metadata is left out of the payload.
PayloadWithoutMetadata(entry) ==
    Some([document |-> Some(entry.content), text |-> None, metadata |-> None])

\* Faulty variant: the entry is enriched and its platform and date are stored.
PayloadOfEnrichedEntry(entry) ==
    Some([document |-> Some(entry.content), text |-> None,
          metadata |-> entry.metadata,
          platform |-> enrich_metadata(entry).platform,
          date |-> enrich_metadata(entry).date])

\* store: payload = {"document": entry.content, METADATA_PATH: entry.metadata};
\* search reads the metadata back from the key "metadata".
StorePayload(entry) ==
    Some([document |-> Some(entry.content), text |-> None,
          metadata |-> IF METADATA_PATH = "metadata" THEN entry.metadata ELSE None])

StorePoint(p, entry, embeddings, id) ==
    [id |-> id,
     vector |-> [name |-> get_vector_name(p), vec |-> embeddings[1]],
     payload |-> StorePayload(entry)]

\* A payload field is None when the key is missing.  "document" and
\* "metadata" are also None when the key holds null, which the connector does
\* not tell apart; "text" is then Some(None), and Some(Some(t)) for a string t.
\* search: payload = result.payload or {}
ResultPayload(res) ==
    IF res.payload.some THEN res.payload.v
    ELSE [document |-> None, text |-> None, metadata |-> None]

\* search: content = payload.get("document") or payload.get("text", "")
\* (None when the value handed to Entry is Python's None)
ResultContent(res) ==
    LET payload == ResultPayload(res) IN
    IF TruthyText(payload.document) THEN Some(payload.document.v)
    ELSE IF payload.text.some THEN payload.text.v
    ELSE Some(<<>>)

\* Entry(content=...): `content: str` admits no None
EntryValid(content) == content.some

\* Faulty variant: the Entry is built without the similarity score, as
\* CustomQdrantService.search of custom_server.py builds it.
ResultEntryWithoutScore(res) ==
    enrich_metadata(Entry(ResultContent(res).v, ResultPayload(res).metadata, None))

\* Faulty variant: the score is tested for truth, so a score of 0 is dropped.
ResultEntryScoreIfTruthy(res) ==
    enrich_metadata(Entry(ResultContent(res).v, ResultPayload(res).metadata,
                          IF res.score.some /\ res.score.v # 0 THEN res.score ELSE None))

\* search: one Entry per remote result, enriched
ResultEntry(res) ==
    enrich_metadata(Entry(ResultContent(res).v, ResultPayload(res).metadata,
                          IF res.score.some THEN res.score ELSE None))

\* Faulty variant: each Entry is put in front of those built before it.
ResultEntriesReversed(results) ==
    [i \in 1..Len(results) |-> ResultEntry(results[Len(results) + 1 - i])]

\* search: `for result in search_results.points: ... entries.append(entry)`
ResultEntries(results) == [i \in 1..Len(results) |-> ResultEntry(results[i])]

(***************************************************************************)
(* Task bookkeeping.                                                       *)
(***************************************************************************)
\* Task t begins operation o with arguments a on collection name `name`
\* (None when no name resolves); it continues at `next`.
Begin(t, o, a, name, next) ==
    /\ pc[t] \in {"idle", "done"}
    /\ nops < MaxOps
    /\ nops' = nops + 1
    /\ after' = [u \in Tasks |->
                    IF u = t THEN {w \in Tasks \ {t} : pc[w] = "done"}
                    ELSE after[u] \ {t}]
    /\ op' = [op EXCEPT ![t] = o]
    /\ args' = [args EXCEPT ![t] = a]
    /\ trace' = [trace EXCEPT ![t] = <<>>]
    /\ result' = [result EXCEPT ![t] = <<>>]
    /\ IF name.some
       THEN /\ local' = [local EXCEPT ![t] = [NoLocal EXCEPT !.collection_name = name.v]]
            /\ status' = [status EXCEPT ![t] = "running"]
            /\ pc' = [pc EXCEPT ![t] = next]
       ELSE \* assert collection_name is not None
            /\ local' = [local EXCEPT ![t] = NoLocal]
            /\ status' = [status EXCEPT ![t] = "ConfigurationError"]
            /\ pc' = [pc EXCEPT ![t] = "done"]
    /\ UNCHANGED <<env, versions, answers, registry, built, ctor, provider, pcall, conn, remote, nextId, stored>>

\* The operation of task t ends with status s.
Ends(t, s) ==
    /\ status' = [status EXCEPT ![t] = s]
    /\ pc' = [pc EXCEPT ![t] = "done"]

Goes(t, next) ==
    /\ pc' = [pc EXCEPT ![t] = next]
    /\ UNCHANGED status

Logs(t, c) == trace' = [trace EXCEPT ![t] = Append(trace[t], c)]

\* Where an operation continues once _ensure_collection_exists has returned.
AfterEnsure(t) ==
    IF op[t] = "store" THEN Goes(t, "st_embed") ELSE Ends(t, "ok")

(***************************************************************************)
(* store                                                                   *)
(***************************************************************************)
StoreCall(t, entry, collection_name) ==
    Begin(t, "store",
          [NoArgs EXCEPT !.entry = entry, !.collection_name = collection_name],
          ResolveCollection(collection_name, conn._default_collection_name),
          "ens_check")

\* _ensure_collection_exists, called on its own
EnsureCall(t, name) ==
    Begin(t, "ensure", [NoArgs EXCEPT !.collection_name = Some(name)],
          Some(name), "ens_check")

\* await self._client.collection_exists(collection_name)
EnsureCheck(t, fails) ==
    /\ pc[t] = "ens_check"
    /\ Logs(t, Call("collection_exists", local[t].collection_name))
    /\ IF fails
       THEN /\ Ends(t, "RemoteStoreError:transport")
            /\ UNCHANGED local
       ELSE LET collection_exists == Exists(remote, local[t].collection_name) IN
            /\ local' = [local EXCEPT ![t].collection_exists =
                            IF collection_exists THEN "yes" ELSE "no"]
            /\ IF NeedsCreate(collection_exists)
               THEN Goes(t, "ens_create")
               ELSE AfterEnsure(t)
    /\ UNCHANGED <<env, versions, answers, registry, built, ctor, provider, pcall, conn, remote, op, args, result, after, nops, nextId, stored>>

\* Faulty variant: the collection is created with the dot-product distance.
VectorsConfigDot(p, lookup_ok) ==
    [vname |-> get_vector_name(p), size |-> get_vector_size(p, lookup_ok),
     distance |-> "Dot"]

\* Faulty variant: the collection is created with the unnamed default vector.
VectorsConfigUnnamed(p, lookup_ok) ==
    [vname |-> "", size |-> get_vector_size(p, lookup_ok), distance |-> "Cosine"]

\* vectors_config={vector_name: VectorParams(size=vector_size, distance=COSINE)}
VectorsConfig(p, lookup_ok) ==
    [vname |-> get_vector_name(p), size |-> get_vector_size(p, lookup_ok),
     distance |-> "Cosine"]

\* await self._client.create_collection(...)
EnsureCreate(t, fails, lookup_ok) ==
    /\ pc[t] = "ens_create"
    /\ LET c == local[t].collection_name
           vectors_config == VectorsConfig(provider, lookup_ok)
           vector_size == vectors_config.size
           vector_name == vectors_config.vname
           outcome == IF fails THEN "transport" ELSE CreateOutcome(remote, c)
       IN /\ Logs(t, [Call("create_collection", c) EXCEPT
                        !.vname = vector_name, !.size = vector_size,
                        !.distance = vectors_config.distance])
          /\ remote' = IF outcome = "ok"
                       THEN [remote EXCEPT ![c] = Some(NewCollection(vector_name, vector_size))]
                       ELSE remote
          /\ IF Raises(outcome)
             THEN /\ Ends(t, "RemoteStoreError:" \o outcome)
                  /\ UNCHANGED local
             ELSE IF conn._field_indexes # <<>>
             THEN /\ Goes(t, "ens_index")
                  /\ local' = [local EXCEPT ![t].todo = conn._field_indexes]
             ELSE /\ AfterEnsure(t)
                  /\ UNCHANGED local
    /\ UNCHANGED <<env, versions, answers, registry, built, ctor, provider, pcall, conn, op, args, result, after, nops, nextId, stored>>

\* await self._client.create_payload_index(...), once per configured field
EnsureIndex(t, fails) ==
    /\ pc[t] = "ens_index"
    /\ LET c == local[t].collection_name
           field_name == Head(local[t].todo)
           outcome == IF fails THEN "transport"
                      ELSE IF ~Exists(remote, c) THEN "not_found" ELSE "ok"
       IN /\ Logs(t, [Call("create_payload_index", c) EXCEPT !.field = field_name])
          /\ remote' = IF outcome = "ok"
                       THEN [remote EXCEPT ![c] = Some([remote[c].v EXCEPT
                                !.indexes = @ \cup {field_name}])]
                       ELSE remote
          /\ IF Raises(outcome)
             THEN /\ Ends(t, "RemoteStoreError:" \o outcome)
                  /\ UNCHANGED local
             ELSE /\ local' = [local EXCEPT ![t].todo = Tail(@)]
                  /\ IF Tail(local[t].todo) # <<>>
                     THEN Goes(t, "ens_index")
                     ELSE AfterEnsure(t)
    /\ UNCHANGED <<env, versions, answers, registry, built, ctor, provider, pcall, conn, op, args, result, after, nops, nextId, stored>>

\* await self._embedding_provider.embed_documents([entry.content])
StoreEmbed(t, fails) ==
    /\ pc[t] = "st_embed"
    /\ LET documents == <<args[t].entry.content>> IN
       /\ Logs(t, [Call("embed_documents", "") EXCEPT
                     !.texts = DocumentTexts(provider, documents)])
       /\ IF fails
          THEN /\ Ends(t, "EmbeddingBackendError")
               /\ UNCHANGED local
          ELSE /\ local' = [local EXCEPT ![t].embeddings =
                               embed_documents(provider, documents)]
               /\ Goes(t, "st_upsert")
    /\ UNCHANGED <<env, versions, answers, registry, built, ctor, provider, pcall, conn, remote, op, args, result, after, nops, nextId, stored>>

\* await self._client.upsert(collection_name, points=[PointStruct(...)])
StoreUpsert(t, fails) ==
    /\ pc[t] = "st_upsert"
    /\ LET c == local[t].collection_name
           id == uuid4(nextId)
           point == StorePoint(provider, args[t].entry, local[t].embeddings, id)
           outcome == IF fails THEN "transport" ELSE UpsertOutcome(remote, c, point)
       IN /\ Logs(t, [Call("upsert", c) EXCEPT !.vname = point.vector.name, !.id = id])
          /\ local' = [local EXCEPT ![t].id = id]
          /\ remote' = IF outcome = "ok" THEN Upserted(remote, c, point) ELSE remote
          /\ stored' = IF outcome = "ok" THEN [stored EXCEPT ![c] = @ + 1] ELSE stored
          /\ IF Raises(outcome)
             THEN Ends(t, "RemoteStoreError:" \o outcome)
             ELSE Ends(t, "ok")
    /\ nextId' = nextId + 1
    /\ UNCHANGED <<env, versions, answers, registry, built, ctor, provider, pcall, conn, op, args, result, after, nops>>

(***************************************************************************)
(* search                                                                  *)
(***************************************************************************)
SearchCall(t, query, collection_name, limit, query_filter) ==
    Begin(t, "search",
          [NoArgs EXCEPT !.query = query, !.collection_name = collection_name,
                         !.limit = limit, !.query_filter = query_filter],
          ResolveCollection(collection_name, conn._default_collection_name),
          "se_check")

\* Faulty variant: search sets an absent collection up as store does.
SearchCheckCreating(t, fails) ==
    /\ pc[t] = "se_check"
    /\ Logs(t, Call("collection_exists", local[t].collection_name))
    /\ IF fails
       THEN /\ Ends(t, "RemoteStoreError:transport")
            /\ UNCHANGED local
       ELSE LET collection_exists == Exists(remote, local[t].collection_name) IN
            /\ local' = [local EXCEPT ![t].collection_exists =
                            IF collection_exists THEN "yes" ELSE "no"]
            /\ IF ~collection_exists
               THEN Goes(t, "ens_create")
               ELSE Goes(t, "se_embed")
    /\ UNCHANGED <<env, versions, answers, registry, built, ctor, provider, pcall, conn, remote, op, args, result, after, nops, nextId, stored>>

\* await self._client.collection_exists(collection_name)
SearchCheck(t, fails) ==
    /\ pc[t] = "se_check"
    /\ Logs(t, Call("collection_exists", local[t].collection_name))
    /\ IF fails
       THEN /\ Ends(t, "RemoteStoreError:transport")
            /\ UNCHANGED local
       ELSE LET collection_exists == Exists(remote, local[t].collection_name) IN
            /\ local' = [local EXCEPT ![t].collection_exists =
                            IF collection_exists THEN "yes" ELSE "no"]
            /\ IF ReturnsEmpty(collection_exists)
               THEN Ends(t, "ok")       \* return []
               ELSE Goes(t, "se_embed")
    /\ UNCHANGED <<env, versions, answers, registry, built, ctor, provider, pcall, conn, remote, op, args, result, after, nops, nextId, stored>>

\* await self._embedding_provider.embed_query(query)
SearchEmbed(t, fails) ==
    /\ pc[t] = "se_embed"
    /\ Logs(t, [Call("embed_query", "") EXCEPT
                  !.texts = <<QueryText(provider, args[t].query)>>])
    /\ IF fails
       THEN /\ Ends(t, "EmbeddingBackendError")
            /\ UNCHANGED local
       ELSE /\ local' = [local EXCEPT ![t].query_vector =
                            embed_query(provider, args[t].query)]
            /\ Goes(t, "se_query")
    /\ UNCHANGED <<env, versions, answers, registry, built, ctor, provider, pcall, conn, remote, op, args, result, after, nops, nextId, stored>>

\* The results as a remote store that reports no score returns them.
Unscored(results) == [i \in 1..Len(results) |-> [results[i] EXCEPT !.score = None]]

\* await self._client.query_points(...), then one enriched Entry per result;
\* scored: whether the remote store reports a score with each result.
SearchQueryWith(t, fails, scored) ==
    /\ pc[t] = "se_query"
    /\ LET c == local[t].collection_name
           vector_name == get_vector_name(provider)
           outcome == IF fails THEN "transport"
                      ELSE QueryOutcome(remote, c, vector_name, local[t].query_vector)
       IN /\ Logs(t, [Call("query_points", c) EXCEPT !.vname = vector_name])
          /\ IF Raises(outcome)
             THEN /\ Ends(t, "RemoteStoreError:" \o outcome)
                  /\ UNCHANGED <<result, local>>
             ELSE \E found \in QueryResults(Points(remote, c), local[t].query_vector,
                                            args[t].limit, args[t].query_filter) :
                     LET search_results == IF scored THEN found ELSE Unscored(found) IN
                     /\ local' = [local EXCEPT ![t].search_results = search_results]
                     /\ IF \A i \in DOMAIN search_results :
                              EntryValid(ResultContent(search_results[i]))
                        THEN /\ result' = [result EXCEPT ![t] = ResultEntries(search_results)]
                             /\ Ends(t, "ok")
                        ELSE \* Entry(...) raises pydantic's ValidationError
                             /\ UNCHANGED result
                             /\ Ends(t, "ValidationError")
    /\ UNCHANGED <<env, versions, answers, registry, built, ctor, provider, pcall, conn, remote, op, args, after, nops, nextId, stored>>

\* the remote store of the connector reports a score with every result
SearchQuery(t, fails) == SearchQueryWith(t, fails, TRUE)

(***************************************************************************)
(* The connector and its provider after construction, over the remote      *)
(* stores it may be pointed at.                                            *)
(***************************************************************************)
ModelName == "multilingual-e5-large-instruct"

\* CustomFastEmbedProvider(model_name, query_prefix=...)
NewProvider(model_name, query_prefix) ==
    [model_name |-> model_name,
     dim |-> _get_vector_dimension(model_name),
     query_prefix |-> InitQueryPrefix(query_prefix)]

NoCall == [method |-> "none", input |-> <<>>, handed |-> <<>>,
           output |-> <<>>, status |-> "none"]

\* Collection "c2" was created and populated by an earlier run of the same
\* connector and provider; "c1" has never been created.
EarlierPoint ==
    StorePoint(NewProvider(ModelName, None), Entry(<<"a">>, None, None),
               embed_documents(NewProvider(ModelName, None), << <<"a">> >>), 0)

EarlierCollection ==
    [NewCollection("text_dense", _get_vector_dimension(ModelName))
        EXCEPT !.points = {EarlierPoint}]

InitialRemote ==
    [c \in CollectionNames |-> IF c = "c2" THEN Some(EarlierCollection) ELSE None]

Init ==
    /\ ctor = [model_name |-> ModelName, query_prefix |-> None]
    /\ provider = NewProvider(ctor.model_name, ctor.query_prefix)
    /\ env = NoEnv
    /\ versions = <<>>
    /\ answers = NoAnswers
    /\ registry = {}
    /\ built = <<>>
    /\ pcall = NoCall
    /\ conn \in {[_default_collection_name |-> d, _field_indexes |-> f] :
                    d \in {None, Some("c1")}, f \in FieldIndexes}
    /\ remote = InitialRemote
    /\ pc = [t \in Tasks |-> "idle"]
    /\ op = [t \in Tasks |-> "none"]
    /\ args = [t \in Tasks |-> NoArgs]
    /\ local = [t \in Tasks |-> NoLocal]
    /\ trace = [t \in Tasks |-> <<>>]
    /\ status = [t \in Tasks |-> "running"]
    /\ result = [t \in Tasks |-> <<>>]
    /\ after = [t \in Tasks |-> {}]
    /\ nops = 0
    /\ nextId = 1
    /\ stored = [c \in CollectionNames |-> 0]

Next ==
    \E t \in Tasks :
        \/ \E e \in StoreEntries, cn \in CollectionArgs : StoreCall(t, e, cn)
        \/ \E c \in CollectionNames : EnsureCall(t, c)
        \/ \E q \in Queries, cn \in CollectionArgs, l \in Limits, f \in Filters :
              SearchCall(t, q, cn, l, f)
        \/ \E fails \in BOOLEAN : EnsureCheck(t, fails)
        \/ \E fails \in BOOLEAN, lookup_ok \in BOOLEAN : EnsureCreate(t, fails, lookup_ok)
        \/ \E fails \in BOOLEAN : EnsureIndex(t, fails)
        \/ \E fails \in BOOLEAN : StoreEmbed(t, fails)
        \/ \E fails \in BOOLEAN : StoreUpsert(t, fails)
        \/ \E fails \in BOOLEAN : SearchCheck(t, fails)
        \/ \E fails \in BOOLEAN : SearchEmbed(t, fails)
        \/ \E fails \in BOOLEAN : SearchQuery(t, fails)

Spec == Init /\ [][Next]_vars

(***************************************************************************)
(* Searches of a collection that other writers have populated as well: its *)
(* points need not carry the payload that store writes.                    *)
(***************************************************************************)
ForeignPoint(id, payload) ==
    [id |-> id,
     vector |-> [name |-> "text_dense",
                 vec |-> [dim |-> _get_vector_dimension(ModelName), of |-> <<"f", id>>]],
     payload |-> payload]

ForeignPoints ==
    { \* no payload at all
      ForeignPoint(-1, None),
      \* a payload without "document", with a "text"
      ForeignPoint(-2, Some([document |-> None, text |-> Some(Some(<<"@", "t">>)),
                             metadata |-> None])),
      \* a payload with neither, with metadata
      ForeignPoint(-3, Some([document |-> None, text |-> None,
                             metadata |-> Some({ <<"timestamp", IntVal(5)>> })])),
      \* a payload without "document" whose "text" is null
      ForeignPoint(-4, Some([document |-> None, text |-> Some(None), metadata |-> None])),
      \* a payload whose "document" is empty, with a "text"
      ForeignPoint(-5, Some([document |-> Some(<<>>), text |-> Some(Some(<<"t">>)),
                             metadata |-> None])) }

SearchInit ==
    /\ env = NoEnv
    /\ versions = <<>>
    /\ answers = NoAnswers
    /\ registry = {}
    /\ built = <<>>
    /\ ctor = [model_name |-> ModelName, query_prefix |-> None]
    /\ provider = NewProvider(ctor.model_name, ctor.query_prefix)
    /\ pcall = NoCall
    /\ conn = [_default_collection_name |-> Some("c1"), _field_indexes |-> <<>>]
    /\ \E foreign \in SUBSET ForeignPoints :
          /\ Cardinality(foreign) <= MaxForeign
          /\ remote = [InitialRemote EXCEPT !["c2"] =
                          Some([EarlierCollection EXCEPT !.points = @ \cup foreign])]
    /\ pc = [t \in Tasks |-> "idle"]
    /\ op = [t \in Tasks |-> "none"]
    /\ args = [t \in Tasks |-> NoArgs]
    /\ local = [t \in Tasks |-> NoLocal]
    /\ trace = [t \in Tasks |-> <<>>]
    /\ status = [t \in Tasks |-> "running"]
    /\ result = [t \in Tasks |-> <<>>]
    /\ after = [t \in Tasks |-> {}]
    /\ nops = 0
    /\ nextId = 1
    /\ stored = [c \in CollectionNames |-> 0]

\* Searches leave the remote store as it is: one caller, searching again and
\* again, sees all that concurrent callers would.
Searchers == {1}

SearchNext ==
    \E t \in Searchers :
        \/ \E q \in Queries, cn \in CollectionArgs, l \in Limits :
              SearchCall(t, q, cn, l, None)
        \/ \E fails \in BOOLEAN : SearchCheck(t, fails)
        \/ \E fails \in BOOLEAN : SearchEmbed(t, fails)
        \/ \E fails \in BOOLEAN, scored \in BOOLEAN : SearchQueryWith(t, fails, scored)

SearchSpec == SearchInit /\ [][SearchNext]_vars

(***************************************************************************)
(* The provider on its own: every way of constructing it, and calls of     *)
(* embed_query and embed_documents on it.                                  *)
(***************************************************************************)
ModelNames == { "multilingual-e5-large-instruct", "multilingual-e5-small" }
TextChars == { "a", "p" }
\* the texts of at most two characters
Texts == { <<>> } \cup { <<x>> : x \in TextChars }
                  \cup { <<x, y>> : x \in TextChars, y \in TextChars }
DocumentLists == UNION { [1..n -> Texts] : n \in 0..MaxDocs }

EmbedQueryCall(query, fails) ==
    /\ pcall' = [method |-> "embed_query",
                 input |-> <<query>>,
                 handed |-> <<QueryText(provider, query)>>,
                 output |-> IF fails THEN <<>> ELSE <<embed_query(provider, query)>>,
                 status |-> IF fails THEN "EmbeddingBackendError" ELSE "ok"]
    /\ UNCHANGED <<env, versions, answers, registry, built, ctor, provider, conn, remote, pc, op, args, local, trace, status,
                   result, after, nops, nextId, stored>>

EmbedDocumentsCall(documents, fails) ==
    /\ pcall' = [method |-> "embed_documents",
                 input |-> documents,
                 handed |-> DocumentTexts(provider, documents),
                 output |-> IF fails THEN <<>> ELSE embed_documents(provider, documents),
                 status |-> IF fails THEN "EmbeddingBackendError" ELSE "ok"]
    /\ UNCHANGED <<env, versions, answers, registry, built, ctor, provider, conn, remote, pc, op, args, local, trace, status,
                   result, after, nops, nextId, stored>>

ProviderInit ==
    /\ ctor \in {[model_name |-> m, query_prefix |-> a] :
                    m \in ModelNames, a \in PrefixArgs}
    /\ provider = NewProvider(ctor.model_name, ctor.query_prefix)
    /\ env = NoEnv
    /\ versions = <<>>
    /\ answers = NoAnswers
    /\ registry = {}
    /\ built = <<>>
    /\ pcall = NoCall
    /\ conn = [_default_collection_name |-> None, _field_indexes |-> <<>>]
    /\ remote = InitialRemote
    /\ pc = [t \in Tasks |-> "idle"]
    /\ op = [t \in Tasks |-> "none"]
    /\ args = [t \in Tasks |-> NoArgs]
    /\ local = [t \in Tasks |-> NoLocal]
    /\ trace = [t \in Tasks |-> <<>>]
    /\ status = [t \in Tasks |-> "running"]
    /\ result = [t \in Tasks |-> <<>>]
    /\ after = [t \in Tasks |-> {}]
    /\ nops = 0
    /\ nextId = 1
    /\ stored = [c \in CollectionNames |-> 0]

ProviderNext ==
    \/ \E q \in Texts, fails \in BOOLEAN : EmbedQueryCall(q, fails)
    \/ \E d \in DocumentLists, fails \in BOOLEAN : EmbedDocumentsCall(d, fails)

ProviderSpec == ProviderInit /\ [][ProviderNext]_vars

(***************************************************************************)
(* Construction of providers in one process.  __init__ has no await: a     *)
(* constructor call is one step.  The backend keeps one registry of custom *)
(* models per process (TextEmbedding.add_custom_model is a class method).  *)
(***************************************************************************)
HfModelIds == { None, Some("org/model") }

\* TextEmbedding.add_custom_model: the backend rejects a name its registry
\* already holds; it may also fail for a reason of its own.
RegisterOutcome(reg, model_name, fails) ==
    IF fails THEN "registration"
    ELSE IF model_name \in reg THEN "already_registered"
    ELSE "ok"

\* __init__: `if self.hf_model_id: self._register_custom_model()`
Registers(hf_model_id) == TruthyStr(hf_model_id)

\* Faulty variant: a failed registration is logged and construction goes on.
RegistrationSwallowed(outcome) == FALSE

\* _register_custom_model: `except Exception as e: logger.error(...); raise`
RegistrationRaises(outcome) == outcome # "ok"

\* CustomFastEmbedProvider(model_name, hf_model_id, query_prefix=...)
Construct(model_name, hf_model_id, query_prefix, reg_fails, load_fails) ==
    /\ Len(built) < MaxProviders
    /\ LET registers == Registers(hf_model_id)
           outcome == IF registers THEN RegisterOutcome(registry, model_name, reg_fails)
                      ELSE "none"
           raised == registers /\ RegistrationRaises(outcome)
           calls == (IF registers THEN <<"add_custom_model">> ELSE <<>>)
                    \o (IF raised THEN <<>> ELSE <<"TextEmbedding">>)
           ended == IF raised THEN "EmbeddingBackendError:" \o outcome
                    ELSE IF load_fails THEN "EmbeddingBackendError:load"
                    ELSE "ok"
       IN /\ registry' = IF outcome = "ok" THEN registry \cup {model_name} ELSE registry
          /\ built' = Append(built,
                [model_name |-> model_name, hf_model_id |-> hf_model_id,
                 query_prefix |-> query_prefix,
                 registration |-> outcome, calls |-> calls, status |-> ended,
                 provider |-> IF ended = "ok"
                              THEN Some(NewProvider(model_name, query_prefix))
                              ELSE None])
    /\ UNCHANGED <<env, versions, answers, ctor, provider, pcall, conn, remote, pc, op, args,
                   local, trace, status, result, after, nops, nextId, stored>>

ConstructNext ==
    \E m \in ModelNames, hf \in HfModelIds, qp \in PrefixArgs,
       reg_fails \in BOOLEAN, load_fails \in BOOLEAN :
        Construct(m, hf, qp, reg_fails, load_fails)

\* a process in which no provider has been constructed yet
ConstructInit ==
    /\ env = NoEnv
    /\ versions = <<>>
    /\ answers = NoAnswers
    /\ registry = {}
    /\ built = <<>>
    /\ ctor = [model_name |-> ModelName, query_prefix |-> None]
    /\ provider = NewProvider(ctor.model_name, ctor.query_prefix)
    /\ pcall = NoCall
    /\ conn = [_default_collection_name |-> None, _field_indexes |-> <<>>]
    /\ remote = InitialRemote
    /\ pc = [t \in Tasks |-> "idle"]
    /\ op = [t \in Tasks |-> "none"]
    /\ args = [t \in Tasks |-> NoArgs]
    /\ local = [t \in Tasks |-> NoLocal]
    /\ trace = [t \in Tasks |-> <<>>]
    /\ status = [t \in Tasks |-> "running"]
    /\ result = [t \in Tasks |-> <<>>]
    /\ after = [t \in Tasks |-> {}]
    /\ nops = 0
    /\ nextId = 1
    /\ stored = [c \in CollectionNames |-> 0]

ConstructSpec == ConstructInit /\ [][ConstructNext]_vars

(***************************************************************************)
(* Entry objects on their own: every way of constructing one, calls of     *)
(* detect_platform and extract_date on it, and repeated enrich_metadata.   *)
(***************************************************************************)
EntryContents ==
    { <<>>,
      <<"h", "e", "l", "l", "o", " ", "w", "o", "r", "l", "d">>,
      <<"C", "h", "e", "c", "k", " ", "t", "h", "i", "s", " ", "o", "u", "t", " ", "#", "f", "y", "p", " ", "#", "f", "o", "r", "y", "o", "u">>,
      <<"s", "e", "e", " ", "h", "t", "t", "p", "s", ":", "/", "/", "e", "x", "a", "m", "p", "l", "e", ".", "c", "o", "m">>,
      <<"#", "T", "w", "e", "e", "t", " ", "#", "i", "n", "s", "t", "a">>,
      <<"#", "I", "n", "s", "t", "a", "g", "r", "a", "m">>,
      <<"#", "F", "B", " ", "h", "t", "t", "p", ":", "/", "/", "x">>,
      <<"#", "i", "n">>,
      <<"#", "y", "t", " ", "/", "r", "/", "x">>,
      <<"/", "r", "/", "a">>,
      <<"a", "@", "b", " ", "#", "r", "e", "d", "d", "i", "t">>,
      <<"P", "o", "s", "t", "e", "d", " ", "o", "n", " ", "2", "0", "2", "4", "-", "0", "3", "-", "1", "5", " ", "a", "b", "o", "u", "t", " ", "h", "i", "k", "i", "n", "g">>,
      <<"0", "3", "/", "1", "5", "/", "2", "0", "2", "4", " ", "a", "n", "d", " ", "2", "0", "2", "4", "-", "0", "3", "-", "1", "6">>,
      <<"o", "n", " ", "3", "/", "5", "/", "2", "4", " ", "o", "k">>,
      <<"1", "/", "2", "/", "2", "0", "2", "4", " ", "t", "h", "e", "n", " ", "0", "3", "/", "0", "4", "/", "2", "0", "2", "5">>,
      <<"#", "T", "i", "k", "T", "o", "k", " ", "1", "2", "/", "2", "5", "/", "2", "0", "2", "4", "5">> }

EntryMetadata ==
    { None, Some({}),
      Some({ <<"date", StrVal(<<"2", "0", "2", "3", "-", "0", "1", "-", "0", "2">>)>> }),
      Some({ <<"timestamp", IntVal(1700000000)>> }),
      Some({ <<"created_at", StrVal(<<"2", "0", "2", "2">>)>> }),
      Some({ <<"created_at", StrVal(<<"2", "0", "2", "2">>)>>, <<"timestamp", IntVal(5)>> }),
      Some({ <<"date", StrVal(<<"2", "0", "2", "3", "-", "0", "1", "-", "0", "2">>)>>, <<"timestamp", IntVal(1)>>,
             <<"created_at", StrVal(<<"2", "0", "2", "2">>)>> }),
      Some({ <<"author", StrVal(<<"m", "e">>)>> }) }

PresetPlatforms == { None, Some(""), Some("Custom") }
PresetDates == { None, Some(<<>>), Some(<<"2", "0", "2", "0", "-", "0", "2", "-", "0", "2">>) }
PresetScores == { None, Some(BestScore) }

Entries ==
    { [content |-> c, metadata |-> m, similarity_score |-> sc, platform |-> p, date |-> d] :
        c \in EntryContents, m \in EntryMetadata, sc \in PresetScores,
        p \in PresetPlatforms, d \in PresetDates }

Current == versions[Len(versions)]

\* entry.enrich_metadata()
EnrichCall ==
    /\ Len(versions) <= MaxEnrich
    /\ versions' = Append(versions, enrich_metadata(Current))
    /\ UNCHANGED <<env, answers, registry, built, ctor, provider, pcall, conn, remote, pc, op,
                   args, local, trace, status, result, after, nops, nextId, stored>>

\* entry.detect_platform()
DetectPlatformCall ==
    /\ ~answers.platform.some
    /\ answers' = [answers EXCEPT !.platform = Some(detect_platform(Current.content))]
    /\ UNCHANGED <<env, versions, registry, built, ctor, provider, pcall, conn, remote, pc, op,
                   args, local, trace, status, result, after, nops, nextId, stored>>

\* entry.extract_date()
ExtractDateCall ==
    /\ ~answers.date.some
    /\ answers' = [answers EXCEPT
                      !.date = Some(extract_date(Current.content, Current.metadata))]
    /\ UNCHANGED <<env, versions, registry, built, ctor, provider, pcall, conn, remote, pc, op,
                   args, local, trace, status, result, after, nops, nextId, stored>>

EntryInit ==
    /\ env = NoEnv
    /\ versions \in { <<e>> : e \in Entries }
    /\ answers = NoAnswers
    /\ registry = {}
    /\ built = <<>>
    /\ ctor = [model_name |-> ModelName, query_prefix |-> None]
    /\ provider = NewProvider(ctor.model_name, ctor.query_prefix)
    /\ pcall = NoCall
    /\ conn = [_default_collection_name |-> None, _field_indexes |-> <<>>]
    /\ remote = InitialRemote
    /\ pc = [t \in Tasks |-> "idle"]
    /\ op = [t \in Tasks |-> "none"]
    /\ args = [t \in Tasks |-> NoArgs]
    /\ local = [t \in Tasks |-> NoLocal]
    /\ trace = [t \in Tasks |-> <<>>]
    /\ status = [t \in Tasks |-> "running"]
    /\ result = [t \in Tasks |-> <<>>]
    /\ after = [t \in Tasks |-> {}]
    /\ nops = 0
    /\ nextId = 1
    /\ stored = [c \in CollectionNames |-> 0]

EntryNext == EnrichCall \/ DetectPlatformCall \/ ExtractDateCall

EntrySpec == EntryInit /\ [][EntryNext]_vars

(***************************************************************************)
(* The descriptors of a provider, get_vector_name and get_vector_size,     *)
(* over the ways of constructing one and over the environment; both the    *)
(* provider of embeddings/custom_fastembed.py and the one simple_server.py *)
(* defines for the server it starts.                                       *)
(***************************************************************************)
\* A model the backend supports without registration, and its dimension.
BuiltinModels == { "BAAI/bge-small-en-v1.5" }
BuiltinDim(model_name) == 384

DescriptorModels ==
    { "multilingual-e5-large-instruct", "multilingual-e5-base", "multilingual-e5-small",
      "my-model" } \cup BuiltinModels

\* The dimension the backend's registry declares for the provider's model:
\* the one passed to add_custom_model when the provider registered it.
DeclaredDim(model_name, hf_model_id) ==
    IF Registers(hf_model_id) THEN _get_vector_dimension(model_name)
    ELSE BuiltinDim(model_name)

\* Construction succeeds for a model that is registered on the way or built in.
Constructible(model_name, hf_model_id) ==
    IF Registers(hf_model_id) THEN model_name \notin BuiltinModels
    ELSE model_name \in BuiltinModels

CacheDirs == { None, Some("/mnt/mcp_model") }
VectorNameEnvs == { None, Some("text_dense"), Some("legacy") }

Constructions ==
    { [kind |-> "custom_fastembed", model_name |-> m, hf_model_id |-> hf,
       cache_dir |-> cd, query_prefix |-> qp] :
        m \in DescriptorModels, hf \in HfModelIds, cd \in CacheDirs, qp \in PrefixArgs }
    \cup
    { [kind |-> "simple_server", model_name |-> m, hf_model_id |-> Some("org/model"),
       cache_dir |-> cd, query_prefix |-> None] :
        m \in DescriptorModels, cd \in CacheDirs }

\* provider.get_vector_name()
GetVectorNameCall ==
    /\ pcall' = [method |-> "get_vector_name", input |-> <<>>, handed |-> <<>>,
                 output |-> << IF ctor.kind = "simple_server"
                               THEN simple_server_get_vector_name(env)
                               ELSE get_vector_name(provider) >>,
                 status |-> "ok", lookup |-> FALSE]
    /\ UNCHANGED <<env, versions, answers, registry, built, ctor, provider, conn, remote,
                   pc, op, args, local, trace, status, result, after, nops, nextId, stored>>

\* provider.get_vector_size() of embeddings/custom_fastembed.py
GetVectorSizeCall(lookup_ok) ==
    /\ ctor.kind = "custom_fastembed"
    /\ pcall' = [method |-> "get_vector_size", input |-> <<>>, handed |-> <<>>,
                 output |-> << get_vector_size(provider, lookup_ok) >>,
                 status |-> "ok", lookup |-> lookup_ok]
    /\ UNCHANGED <<env, versions, answers, registry, built, ctor, provider, conn, remote,
                   pc, op, args, local, trace, status, result, after, nops, nextId, stored>>

DescriptorInit ==
    /\ env \in { [QDRANT_VECTOR_NAME |-> v] : v \in VectorNameEnvs }
    /\ versions = <<>>
    /\ answers = NoAnswers
    /\ ctor \in { c \in Constructions : Constructible(c.model_name, c.hf_model_id) }
    /\ registry = IF Registers(ctor.hf_model_id) THEN {ctor.model_name} ELSE {}
    /\ built = <<>>
    /\ provider = [NewProvider(ctor.model_name, ctor.query_prefix) EXCEPT
                      !.dim = DeclaredDim(ctor.model_name, ctor.hf_model_id)]
    /\ pcall = NoCall
    /\ conn = [_default_collection_name |-> None, _field_indexes |-> <<>>]
    /\ remote = InitialRemote
    /\ pc = [t \in Tasks |-> "idle"]
    /\ op = [t \in Tasks |-> "none"]
    /\ args = [t \in Tasks |-> NoArgs]
    /\ local = [t \in Tasks |-> NoLocal]
    /\ trace = [t \in Tasks |-> <<>>]
    /\ status = [t \in Tasks |-> "running"]
    /\ result = [t \in Tasks |-> <<>>]
    /\ after = [t \in Tasks |-> {}]
    /\ nops = 0
    /\ nextId = 1
    /\ stored = [c \in CollectionNames |-> 0]

DescriptorNext ==
    \/ GetVectorNameCall
    \/ \E lookup_ok \in BOOLEAN : GetVectorSizeCall(lookup_ok)

DescriptorSpec == DescriptorInit /\ [][DescriptorNext]_vars

(***************************************************************************)
(* Properties.                                                             *)
(***************************************************************************)
CallKinds(t) == [i \in DOMAIN trace[t] |-> trace[t][i].call]
Calls(t, kind) == Cardinality({i \in DOMAIN trace[t] : trace[t][i].call = kind})
Ensuring(t) == op[t] \in {"ensure", "store"}
Answered(t) == local[t].collection_exists # "unknown"
SameCollection(t, u) == local[t].collection_name = local[u].collection_name
\* the operation of u had ended, successfully, when that of t began
Follows(t, u) == u \in after[t] /\ status[u] = "ok"
InitialCount(c) == Cardinality(Points(InitialRemote, c))
StoredPoint(t) ==
    StorePoint(provider, args[t].entry, local[t].embeddings, local[t].id)

\* C1: when _ensure_collection_exists runs on a name after an earlier run of it
\* on the same name has returned, and its existence check is answered, it sees
\* the collection, issues no create-collection and no payload-index call and
\* raises nothing; the two runs together issue at most one create call, and
\* exactly one when the first saw the collection absent.
C1_EnsureTwiceCreatesOnce ==
    \A s \in Tasks, u \in Tasks :
        (/\ Ensuring(s) /\ Ensuring(u) /\ Follows(s, u) /\ SameCollection(s, u)
         /\ Answered(s))
        => /\ local[s].collection_exists = "yes"
           /\ Calls(s, "create_collection") = 0
           /\ Calls(s, "create_payload_index") = 0
           /\ pc[s] \notin {"ens_create", "ens_index"}
           /\ (op[s] = "ensure" => pc[s] = "done" /\ status[s] = "ok")
           /\ Calls(u, "create_collection") + Calls(s, "create_collection") <= 1
           /\ (local[u].collection_exists = "no"
                  => Calls(u, "create_collection") + Calls(s, "create_collection") = 1)

C1_Witness ==
    \E s \in Tasks, u \in Tasks :
        /\ op[s] = "ensure" /\ op[u] = "ensure" /\ Follows(s, u) /\ SameCollection(s, u)
        /\ local[u].collection_exists = "no"
        /\ Calls(u, "create_collection") = 1
        /\ pc[s] = "done" /\ status[s] = "ok"

\* C2: a search whose existence check finds the collection absent returns the
\* empty list without error, having made no other call, whatever its query,
\* limit and filter; no search ever ends with "collection not found".
C2_SearchAbsentIsEmpty ==
    \A t \in Tasks :
        op[t] = "search" =>
            /\ status[t] # "RemoteStoreError:not_found"
            /\ local[t].collection_exists = "no" =>
                  /\ pc[t] = "done"
                  /\ status[t] = "ok"
                  /\ result[t] = <<>>
                  /\ CallKinds(t) = <<"collection_exists">>

C2_Witness ==
    \E t \in Tasks :
        /\ op[t] = "search" /\ local[t].collection_exists = "no"
        /\ ~Exists(remote, local[t].collection_name)
        /\ args[t].query_filter.some /\ args[t].limit = 1
        /\ status[t] = "ok" /\ result[t] = <<>>

WithoutIndexCalls(kinds) == SelectSeq(kinds, LAMBDA k : k # "create_payload_index")
IsPrefix(a, b) == Len(a) <= Len(b) /\ SubSeq(b, 1, Len(a)) = a
FirstUseCalls == <<"collection_exists", "create_collection", "embed_documents", "upsert">>

\* C3: a store never ends with "collection not found" and always makes the
\* existence check its first call.  A store whose check finds the collection
\* absent makes, in this order, the existence check, the create call, the
\* document embedding and one upsert (payload-index calls, if configured, come
\* right after the create); it stops only at a call that failed, and when it
\* succeeds all four were made, the collection exists and holds the new point.
C3_StoreCreatesOnFirstUse ==
    \A t \in Tasks :
        op[t] = "store" =>
            /\ status[t] # "RemoteStoreError:not_found"
            /\ trace[t] # <<>> => trace[t][1].call = "collection_exists"
            /\ pc[t] = "done" => status[t] # "running"
            /\ local[t].collection_exists = "no" =>
                  /\ IsPrefix(WithoutIndexCalls(CallKinds(t)), FirstUseCalls)
                  /\ Calls(t, "create_payload_index") <= Len(conn._field_indexes)
                  /\ status[t] = "ok" =>
                        /\ WithoutIndexCalls(CallKinds(t)) = FirstUseCalls
                        /\ Calls(t, "create_payload_index") = Len(conn._field_indexes)
                        /\ Exists(remote, local[t].collection_name)
                        /\ StoredPoint(t) \in Points(remote, local[t].collection_name)

C3_Witness ==
    \E t \in Tasks :
        /\ op[t] = "store" /\ local[t].collection_exists = "no" /\ status[t] = "ok"
        /\ conn._field_indexes # <<>>
        /\ StoredPoint(t) \in Points(remote, local[t].collection_name)

\* C4: every upsert the remote store accepts from a store adds one point and
\* replaces none: a collection holds as many points as it held at first plus
\* one per successful store on it, each under an identifier of its own.
C4_StoreAddsOnePoint ==
    \A c \in CollectionNames :
        /\ Cardinality(Points(remote, c)) = InitialCount(c) + stored[c]
        /\ \A x \in Points(remote, c), y \in Points(remote, c) : x.id = y.id => x = y
        /\ \A t \in Tasks :
              (op[t] = "store" /\ status[t] = "ok" /\ local[t].collection_name = c)
                  => StoredPoint(t) \in Points(remote, c)

C4_Witness ==
    \E c \in CollectionNames :
        /\ stored[c] = 2
        /\ \E x \in Points(remote, c), y \in Points(remote, c) :
              x.id # y.id /\ x.payload = y.payload /\ x.vector = y.vector

\* a successful search of s that began after the successful store of u on the
\* same collection had returned
SearchAfterStore(s, u) ==
    /\ op[s] = "search" /\ pc[s] = "done" /\ status[s] = "ok"
    /\ op[u] = "store" /\ Follows(s, u) /\ SameCollection(s, u)

Returned(s, entry) ==
    \E i \in DOMAIN result[s] :
        /\ result[s][i].content = entry.content
        /\ result[s][i].metadata = entry.metadata

\* C5, as the specification states it: store(e) followed by a search with
\* limit=1 and a query equal to e.content returns an entry with e's content
\* and e's metadata.
C5_RoundTrip ==
    \A s \in Tasks, u \in Tasks :
        (/\ SearchAfterStore(s, u)
         /\ args[s].limit = 1 /\ ~args[s].query_filter.some
         /\ args[s].query = args[u].entry.content)
        => Returned(s, args[u].entry)

\* C5, amended: the round trip holds when the stored point is the only point
\* of the collection; the search then returns exactly that one entry.
C5_RoundTripWhenAlone ==
    \A s \in Tasks, u \in Tasks :
        (/\ SearchAfterStore(s, u)
         /\ args[s].limit = 1 /\ ~args[s].query_filter.some
         /\ args[s].query = args[u].entry.content
         /\ Points(remote, local[s].collection_name) = {StoredPoint(u)})
        => /\ Len(result[s]) = 1
           /\ Returned(s, args[u].entry)

C5_Witness ==
    \E s \in Tasks, u \in Tasks :
        /\ SearchAfterStore(s, u)
        /\ args[s].limit = 1 /\ ~args[s].query_filter.some
        /\ args[s].query = args[u].entry.content
        /\ args[u].entry.metadata.some
        /\ Points(remote, local[s].collection_name) = {StoredPoint(u)}
        /\ Returned(s, args[u].entry)

\* C6: when a store has created its collection and a search without filter
\* follows it before anything else is stored there, the search returns the
\* stored entry among its results, with a similarity score, whatever the query
\* and the limit.
C6_StoreThenSearchFindsEntry ==
    \A s \in Tasks, u \in Tasks :
        (/\ SearchAfterStore(s, u)
         /\ local[u].collection_exists = "no"
         /\ ~args[s].query_filter.some
         /\ Points(remote, local[s].collection_name) = {StoredPoint(u)})
        => \E i \in DOMAIN result[s] :
              /\ result[s][i].content = args[u].entry.content
              /\ result[s][i].metadata = args[u].entry.metadata
              /\ result[s][i].similarity_score.some

C6_Witness ==
    \E s \in Tasks, u \in Tasks :
        /\ SearchAfterStore(s, u)
        /\ local[u].collection_exists = "no"
        /\ ~args[s].query_filter.some
        /\ args[s].limit = DefaultLimit
        /\ args[s].query # args[u].entry.content
        /\ Points(remote, local[s].collection_name) = {StoredPoint(u)}
        /\ Len(result[s]) = 1 /\ result[s][1].similarity_score.some

C8_QueryDiffersFromDocument ==
    (pcall.method = "embed_query" /\ pcall.status = "ok" /\ pcall.input[1] # <<>>)
    => LET document_vector == embed_documents(provider, pcall.input)[1] IN
       /\ TruthyText(ctor.query_prefix) => pcall.output[1] # document_vector
       /\ ctor.query_prefix = Some(<<>>) => pcall.output[1] = document_vector

\* C9: store and search work on the collection named by the explicit argument
\* when one is given and on the connector's default otherwise; when neither is
\* set the operation ends at once with the configuration error, without a
\* single remote or backend call.
C9_CollectionResolution ==
    \A t \in Tasks :
        op[t] \in {"store", "search"} =>
            LET given == args[t].collection_name
                default == conn._default_collection_name
            IN /\ TruthyStr(given) =>
                     /\ status[t] # "ConfigurationError"
                     /\ local[t].collection_name = given.v
               /\ (~TruthyStr(given) /\ default.some) =>
                     /\ status[t] # "ConfigurationError"
                     /\ local[t].collection_name = default.v
               /\ (~TruthyStr(given) /\ ~default.some) =>
                     /\ status[t] = "ConfigurationError"
                     /\ pc[t] = "done"
                     /\ trace[t] = <<>>
               /\ \A i \in DOMAIN trace[t] :
                     trace[t][i].coll \in {"", local[t].collection_name}

C9_Witness ==
    \E t \in Tasks, u \in Tasks :
        /\ op[t] = "store" /\ status[t] = "ConfigurationError" /\ trace[t] = <<>>
        /\ op[u] = "search" /\ args[u].collection_name = Some("c2")
        /\ local[u].collection_name = "c2" /\ status[u] = "ok"

\* the create call of t was answered by the remote store
CreateAnswered(t) ==
    /\ Calls(t, "create_collection") = 1
    /\ ~(status[t] = "RemoteStoreError:transport"
         /\ trace[t][Len(trace[t])].call = "create_collection")

\* C10: nothing keeps two first users of a collection from both issuing the
\* create call, and the connector does not absorb the rejection: when two
\* operations have both seen the collection absent and both had their create
\* call answered, exactly one of them has ended with the remote store's
\* "already exists" error, at the create call, with no further call made.
C10_CreateRaceSurfaces ==
    /\ \A t \in Tasks, u \in Tasks :
          (/\ t # u /\ Ensuring(t) /\ Ensuring(u) /\ SameCollection(t, u)
           /\ local[t].collection_exists = "no" /\ local[u].collection_exists = "no"
           /\ CreateAnswered(t) /\ CreateAnswered(u))
          => (status[t] = "RemoteStoreError:already_exists")
                # (status[u] = "RemoteStoreError:already_exists")
    /\ \A t \in Tasks :
          status[t] = "RemoteStoreError:already_exists" =>
              /\ pc[t] = "done"
              /\ local[t].collection_exists = "no"
              /\ CallKinds(t) = <<"collection_exists", "create_collection">>

C10_Witness ==
    \E t \in Tasks, u \in Tasks :
        /\ t # u /\ op[t] = "store" /\ op[u] = "store" /\ SameCollection(t, u)
        /\ local[t].collection_exists = "no" /\ local[u].collection_exists = "no"
        /\ CreateAnswered(t) /\ CreateAnswered(u)
        /\ status[t] = "ok"
        /\ status[u] = "RemoteStoreError:already_exists"

\* the earlier constructor call i registered the model that call j registers again
RegistersAgain(i, j) ==
    /\ i < j
    /\ built[i].registration = "ok"
    /\ built[j].hf_model_id.some
    /\ built[j].model_name = built[i].model_name
    /\ built[j].hf_model_id = built[i].hf_model_id

\* C11, as the specification states it: constructing a provider registers its
\* model once, and constructing a second provider for a model name that an
\* earlier construction in the same process has registered does not fail on
\* that account.
C11_RegistrationIdempotent ==
    /\ \A j \in DOMAIN built :
          Cardinality({k \in DOMAIN built[j].calls :
                          built[j].calls[k] = "add_custom_model"}) <= 1
    /\ \A i \in DOMAIN built, j \in DOMAIN built :
          RegistersAgain(i, j) =>
              built[j].status # "EmbeddingBackendError:already_registered"

\* C19: when the registration step of a constructor call fails, the call
\* raises: it yields no provider, and the embedding model is not instantiated
\* after the failed registration (the registration call is the last call the
\* constructor makes on the backend).
C19_RegistrationFailureIsFatal ==
    \A j \in DOMAIN built :
        built[j].registration \notin {"none", "ok"} =>
            /\ built[j].status = "EmbeddingBackendError:" \o built[j].registration
            /\ built[j].provider = None
            /\ built[j].calls = <<"add_custom_model">>

C19_Witness ==
    \E j \in DOMAIN built :
        /\ built[j].registration = "registration"
        /\ built[j].status = "EmbeddingBackendError:registration"
        /\ built[j].provider = None
        /\ \E i \in DOMAIN built : i < j /\ built[i].provider.some

\* C12, as the specification states it: enrichment leaves a platform that was
\* set before it as it was, and likewise a date; it leaves content, metadata
\* and similarity score unchanged.
C12_EnrichmentNeverOverwrites ==
    \A i \in 1..(Len(versions) - 1) :
        /\ versions[i].platform.some => versions[i + 1].platform = versions[i].platform
        /\ versions[i].date.some => versions[i + 1].date = versions[i].date
        /\ versions[i + 1].content = versions[i].content
        /\ versions[i + 1].metadata = versions[i].metadata
        /\ versions[i + 1].similarity_score = versions[i].similarity_score

\* C13: enriching an Entry a second time changes nothing: its platform and
\* its date (and the whole Entry) are what the first enrichment left.
C13_EnrichmentIdempotent ==
    \A i \in 2..(Len(versions) - 1) :
        /\ versions[i + 1].platform = versions[i].platform
        /\ versions[i + 1].date = versions[i].date
        /\ versions[i + 1] = versions[i]

C13_Witness ==
    /\ Len(versions) = 3
    /\ versions[1].platform = None /\ versions[1].date = None
    /\ versions[2].platform = Some("TikTok")
    /\ versions[2].date = Some(<<"1", "2", "/", "2", "5", "/", "2", "0", "2", "4">>)
    /\ versions[3] = versions[2]

\* the markers of each platform, in the order they are tried
PlatformRules ==
    << <<"Twitter/X", TwitterTags>>, <<"Instagram", InstagramTags>>,
       <<"Facebook", FacebookTags>>, <<"LinkedIn", LinkedInTags>>,
       <<"TikTok", TikTokTags>>, <<"YouTube", YouTubeTags>>, <<"Reddit", RedditTags>> >>

HasMarker(content, k) ==
    \E tag \in PlatformRules[k][2] : Contains(Lower(content), tag)

\* C14: detect_platform answers the platform of the first rule, in the order
\* Twitter/X, Instagram, Facebook, LinkedIn, TikTok, YouTube, Reddit, one of
\* whose markers occurs in the content whatever its case; "Web/Blog" when none
\* does and the content holds "http"; "Social Media" otherwise; it always
\* answers a platform.  An Entry enriched without a platform gets that answer.
C14_PlatformFirstMatchWins ==
    /\ answers.platform.some =>
          LET content == Current.content
              r == answers.platform.v
              none == \A k \in DOMAIN PlatformRules : ~HasMarker(content, k)
              http == Contains(Lower(content), <<"h", "t", "t", "p">>)
          IN /\ r # ""
             /\ \A k \in DOMAIN PlatformRules :
                   r = PlatformRules[k][1]
                      <=> (HasMarker(content, k) /\ \A j \in 1..(k - 1) : ~HasMarker(content, j))
             /\ r = "Web/Blog" <=> (none /\ http)
             /\ r = "Social Media" <=> (none /\ ~http)
             /\ content = <<"C", "h", "e", "c", "k", " ", "t", "h", "i", "s", " ", "o", "u", "t", " ", "#", "f", "y", "p", " ", "#", "f", "o", "r", "y", "o", "u">> => r = "TikTok"
             /\ content = <<"h", "e", "l", "l", "o", " ", "w", "o", "r", "l", "d">> => r = "Social Media"
             /\ content = <<"s", "e", "e", " ", "h", "t", "t", "p", "s", ":", "/", "/", "e", "x", "a", "m", "p", "l", "e", ".", "c", "o", "m">> => r = "Web/Blog"
             /\ content = <<"#", "I", "n", "s", "t", "a", "g", "r", "a", "m">> => r = "Instagram"
             /\ content = <<"#", "T", "w", "e", "e", "t", " ", "#", "i", "n", "s", "t", "a">> => r = "Twitter/X"
    /\ (Len(versions) > 1 /\ versions[1].platform = None /\ answers.platform.some)
          => versions[2].platform = answers.platform

C14_Witness ==
    /\ answers.platform = Some("TikTok")
    /\ Current.content = <<"C", "h", "e", "c", "k", " ", "t", "h", "i", "s", " ", "o", "u", "t", " ", "#", "f", "y", "p", " ", "#", "f", "o", "r", "y", "o", "u">>
    /\ Len(versions) > 1 /\ versions[1].platform = None
    /\ versions[2].platform = Some("TikTok")

MetadataHas(metadata, key) == metadata.some /\ HasKey(metadata.v, key)
MetadataText(metadata, key) == Some(Str(Get(metadata.v, key)))
FirstOf(alts, content) == ReSearch(alts, content)

\* C15: extract_date answers the string form of the metadata field "date" when
\* the metadata has it, else of "timestamp", else of "created_at"; when the
\* metadata has none of the three it answers the first match in the content
\* of YYYY-MM-DD, else of MM/DD/YYYY, else of the generic slash pattern; and
\* nothing when the content matches none of them.
C15_DateExtractionOrder ==
    answers.date.some =>
        LET content == Current.content
            metadata == Current.metadata
            r == answers.date.v
            hasDate == MetadataHas(metadata, "date")
            hasTimestamp == MetadataHas(metadata, "timestamp")
            hasCreated == MetadataHas(metadata, "created_at")
            ymd == FirstOf(<<PatYMD>>, content)
            mdy == FirstOf(<<PatMDY>>, content)
            generic == FirstOf(PatGeneric, content)
        IN /\ hasDate => r = MetadataText(metadata, "date")
           /\ (~hasDate /\ hasTimestamp) => r = MetadataText(metadata, "timestamp")
           /\ (~hasDate /\ ~hasTimestamp /\ hasCreated)
                 => r = MetadataText(metadata, "created_at")
           /\ (~hasDate /\ ~hasTimestamp /\ ~hasCreated) =>
                 /\ ymd.some => r = ymd
                 /\ (~ymd.some /\ mdy.some) => r = mdy
                 /\ (~ymd.some /\ ~mdy.some) => r = generic
                 /\ content = <<"P", "o", "s", "t", "e", "d", " ", "o", "n", " ", "2", "0", "2", "4", "-", "0", "3", "-", "1", "5", " ", "a", "b", "o", "u", "t", " ", "h", "i", "k", "i", "n", "g">> => r = Some(<<"2", "0", "2", "4", "-", "0", "3", "-", "1", "5">>)
                 /\ content = <<"0", "3", "/", "1", "5", "/", "2", "0", "2", "4", " ", "a", "n", "d", " ", "2", "0", "2", "4", "-", "0", "3", "-", "1", "6">> => r = Some(<<"2", "0", "2", "4", "-", "0", "3", "-", "1", "6">>)
                 /\ content = <<"o", "n", " ", "3", "/", "5", "/", "2", "4", " ", "o", "k">> => r = Some(<<"3", "/", "5", "/", "2", "4">>)
                 /\ content = <<"1", "/", "2", "/", "2", "0", "2", "4", " ", "t", "h", "e", "n", " ", "0", "3", "/", "0", "4", "/", "2", "0", "2", "5">> => r = Some(<<"0", "3", "/", "0", "4", "/", "2", "0", "2", "5">>)
                 /\ content = <<"h", "e", "l", "l", "o", " ", "w", "o", "r", "l", "d">> => r = None
           /\ metadata = Some({ <<"timestamp", IntVal(1700000000)>> })
                 => r = Some(<<"1", "7", "0", "0", "0", "0", "0", "0", "0", "0">>)

C15_Witness ==
    /\ answers.date = Some(Some(<<"1", "7", "0", "0", "0", "0", "0", "0", "0", "0">>))
    /\ Current.metadata = Some({ <<"timestamp", IntVal(1700000000)>> })
    /\ Current.content = <<"P", "o", "s", "t", "e", "d", " ", "o", "n", " ", "2", "0", "2", "4", "-", "0", "3", "-", "1", "5", " ", "a", "b", "o", "u", "t", " ", "h", "i", "k", "i", "n", "g">>

\* a search of t whose query the remote store has answered
QueryAnswered(t) ==
    /\ op[t] = "search" /\ pc[t] = "done"
    /\ trace[t] # <<>> /\ trace[t][Len(trace[t])].call = "query_points"
    /\ status[t] \in {"ok", "ValidationError"}

Returns(t) == QueryAnswered(t) /\ status[t] = "ok"

\* C16: a search that returns after its query returns one Entry per result of
\* the remote store, in the order of those results, each made of that result's
\* content, metadata and score and enriched with platform and date.
C16_OneEntryPerResultInOrder ==
    \A t \in Tasks :
        Returns(t) =>
            /\ Len(result[t]) = Len(local[t].search_results)
            /\ \A i \in DOMAIN result[t] :
                  LET res == local[t].search_results[i]
                      e == result[t][i]
                  IN /\ Some(e.content) = ResultContent(res)
                     /\ e.metadata = ResultPayload(res).metadata
                     /\ e.similarity_score = res.score
                     /\ e.platform = Some(detect_platform(e.content))
                     /\ e.date = extract_date(e.content, e.metadata)

C16_Witness ==
    \E t \in Tasks :
        /\ Returns(t)
        /\ Len(result[t]) = 3
        /\ result[t][1].content # result[t][2].content
        /\ result[t][1].platform # result[t][2].platform
        /\ result[t][3].date # None

C18_MalformedPayloadTolerated ==
    \A t \in Tasks :
        QueryAnswered(t) =>
            /\ status[t] = "ok"
            /\ Len(result[t]) = Len(local[t].search_results)
            /\ \A i \in DOMAIN result[t] :
                  LET payload == ResultPayload(local[t].search_results[i]) IN
                  result[t][i].content =
                      IF TruthyText(payload.document) THEN payload.document.v
                      ELSE IF payload.text.some /\ payload.text.v.some THEN payload.text.v.v
                      ELSE <<>>

CreateCalls(t) == SelectSeq(trace[t], LAMBDA c : c.call = "create_collection")
IndexFields(t) ==
    LET calls == SelectSeq(trace[t], LAMBDA c : c.call = "create_payload_index")
    IN [i \in DOMAIN calls |-> calls[i].field]
\* _ensure_collection_exists of t has returned
Ensured(t) ==
    \/ op[t] = "ensure" /\ pc[t] = "done" /\ status[t] = "ok"
    \/ op[t] = "store" /\ (pc[t] \in {"st_embed", "st_upsert"} \/ Calls(t, "embed_documents") > 0)

\* C20: _ensure_collection_exists that finds the collection absent issues one
\* create call, for the vector name and the vector size of the provider with
\* the cosine distance, and after it one payload-index call per configured
\* field, in their order; it has made all of them when it returns.  When it
\* finds the collection present it issues neither.
C20_CreateSchemaThenIndexes ==
    \A t \in Tasks :
        Ensuring(t) =>
            /\ local[t].collection_exists \in {"yes", "unknown"} =>
                  /\ CreateCalls(t) = <<>>
                  /\ IndexFields(t) = <<>>
            /\ local[t].collection_exists = "no" =>
                  /\ Len(CreateCalls(t)) <= 1
                  /\ pc[t] # "ens_create" => Len(CreateCalls(t)) = 1
                  /\ \A i \in DOMAIN CreateCalls(t) :
                        /\ trace[t][2] = CreateCalls(t)[i]
                        /\ CreateCalls(t)[i].coll = local[t].collection_name
                        /\ CreateCalls(t)[i].vname = "text_dense"
                        /\ CreateCalls(t)[i].size = provider.dim
                        /\ CreateCalls(t)[i].distance = "Cosine"
                  /\ IsPrefix(IndexFields(t), conn._field_indexes)
                  /\ \A i \in DOMAIN trace[t] :
                        trace[t][i].call = "create_payload_index" =>
                            /\ i > 2
                            /\ trace[t][i].coll = local[t].collection_name
                  /\ Ensured(t) => IndexFields(t) = conn._field_indexes

C20_Witness ==
    \E t \in Tasks :
        /\ op[t] = "ensure" /\ pc[t] = "done" /\ status[t] = "ok"
        /\ local[t].collection_exists = "no"
        /\ Len(CreateCalls(t)) = 1
        /\ IndexFields(t) = <<"f1", "f2">>

\* C21, as the specification states it: get_vector_name answers "text_dense"
\* on every call, whatever the model name, the external source, the cache
\* location and the query prefix the provider was constructed with.
C21_VectorNameFixed ==
    pcall.method = "get_vector_name" => pcall.output = <<"text_dense">>

\* the static fallback table of the provider
FallbackDimension(model_name) ==
    CASE model_name = "multilingual-e5-large-instruct" -> 1024
      [] model_name = "multilingual-e5-base" -> 768
      [] model_name = "multilingual-e5-small" -> 384
      [] OTHER -> 1024

\* C22: get_vector_size never raises; it answers the dimension the backend's
\* registry declares for the model when the lookup succeeds, and the value of
\* the fallback table for the model name otherwise (1024 for a name the table
\* does not know); for a model the provider registered itself both are the
\* dimension it passed at registration.
C22_VectorSizeLookupThenTable ==
    pcall.method = "get_vector_size" =>
        /\ pcall.status = "ok"
        /\ pcall.lookup =>
              pcall.output = << DeclaredDim(ctor.model_name, ctor.hf_model_id) >>
        /\ ~pcall.lookup => pcall.output = << FallbackDimension(ctor.model_name) >>
        /\ ctor.hf_model_id.some => pcall.output = << FallbackDimension(ctor.model_name) >>
        /\ (ctor.model_name \in BuiltinModels /\ pcall.lookup)
              => pcall.output = << BuiltinDim(ctor.model_name) >>

C22_Witness ==
    /\ pcall.method = "get_vector_size" /\ pcall.lookup
    /\ ctor.model_name \in BuiltinModels
    /\ pcall.output # << FallbackDimension(ctor.model_name) >>

RemoteErrors ==
    { "RemoteStoreError:transport", "RemoteStoreError:already_exists",
      "RemoteStoreError:not_found", "RemoteStoreError:bad_vector" }

\* Task t issues a call in this step; the call is the last of its trace.
Issues(t) == trace'[t] # trace[t] /\ trace'[t] # <<>>
Issued(t) == trace'[t][Len(trace'[t])]

\* The remote call task t issues in this step fails: the existence check
\* gives no answer, the create, index or upsert call leaves the remote store
\* as it was, the query is one the remote store rejects.
RemoteCallFails(t) ==
    LET c == Issued(t) IN
    CASE c.call = "collection_exists" -> local'[t].collection_exists = "unknown"
      [] c.call \in {"create_collection", "create_payload_index", "upsert"} ->
            remote' = remote
      [] c.call = "query_points" ->
            QueryOutcome(remote, c.coll, c.vname, local[t].query_vector) # "ok"
      [] OTHER -> FALSE

Storing(t) == op[t] = "store" /\ pc[t] \notin {"idle", "done"}

\* C24: store leaves the Entry it is given as it was, without platform, date
\* or score, and the point a successful upsert adds carries a payload of
\* exactly two keys: "document" with the entry's content and "metadata" with
\* the caller's metadata.
C24_StoreDoesNotEnrich ==
    [][\A t \in Tasks : Storing(t) =>
          /\ args'[t] = args[t]
          /\ args[t].entry \in StoreEntries
          /\ (pc[t] = "st_upsert" /\ status'[t] = "ok") =>
                LET c == local[t].collection_name
                    entry == args[t].entry IN
                \E point \in Points(remote', c) :
                    /\ Points(remote', c) \ Points(remote, c) = {point}
                    /\ point.payload.some
                    /\ DOMAIN point.payload.v = {"document", "text", "metadata"}
                    /\ point.payload.v.document = Some(entry.content)
                    /\ point.payload.v.text = None
                    /\ point.payload.v.metadata = entry.metadata]_vars

\* a store of an entry whose enrichment would add a platform has returned
C24_Witness ==
    \E t \in Tasks :
        /\ op[t] = "store" /\ status[t] = "ok"
        /\ args[t].entry.platform = None
        /\ enrich_metadata(args[t].entry).platform = Some("Twitter/X")
        /\ \E point \in Points(remote, local[t].collection_name) :
              /\ point.id = local[t].id
              /\ point.payload = StorePayload(args[t].entry)

\* C25: nothing is ever deleted.  Over every interleaving of store, search
\* and _ensure_collection_exists calls, a collection that exists goes on
\* existing and every point of it stays in it, as it is.
C25_OnlyGrows ==
    [][\A c \in CollectionNames :
          Exists(remote, c) =>
              /\ Exists(remote', c)
              /\ Points(remote, c) \subseteq Points(remote', c)]_vars

\* a collection the connector created has received two points
C25_Witness ==
    \E c \in CollectionNames :
        /\ ~Exists(InitialRemote, c)
        /\ Exists(remote, c)
        /\ Cardinality(Points(remote, c)) = 2

WritingCalls == {"create_collection", "create_payload_index", "upsert"}

\* C26: search only reads.  Whether the collection is absent or present and
\* whether its calls succeed or fail, a search issues no create_collection,
\* create_payload_index or upsert call, and none of its steps changes the
\* collections or their points.
C26_SearchReadOnly ==
    [][\A t \in Tasks :
          (op[t] = "search" /\ (Issues(t) \/ pc'[t] # pc[t])) =>
              /\ remote' = remote
              /\ \A i \in DOMAIN trace'[t] : trace'[t][i].call \notin WritingCalls]_vars

\* one search has returned from an absent collection and another has had its
\* query fail
C26_Witness ==
    \E t, u \in Tasks :
        /\ op[t] = "search" /\ status[t] = "ok"
        /\ local[t].collection_exists = "no"
        /\ ~Exists(remote, local[t].collection_name)
        /\ op[u] = "search" /\ status[u] = "RemoteStoreError:transport"
        /\ Calls(u, "query_points") = 1

\* The fields the connector is configured to index.
ConfiguredFields == { conn._field_indexes[i] : i \in DOMAIN conn._field_indexes }

\* C27, as the specification states it: once a store on a collection this
\* connector created has returned successfully, every configured payload
\* field index exists on that collection, also after an earlier store failed
\* during the setup of the collection and when two first stores interleave.
C27_IndexesAfterStore ==
    \A t \in Tasks :
        (/\ op[t] = "store" /\ status[t] = "ok"
         /\ ~Exists(InitialRemote, local[t].collection_name)) =>
            ConfiguredFields \subseteq remote[local[t].collection_name].v.indexes

SearchCalls == <<"collection_exists", "embed_query", "query_points">>

\* C28: search checks existence before it embeds.  Its calls are, in order,
\* the existence check, one embed_query and one query_points; a search that
\* learnt that the collection is absent, or got no answer, has made neither
\* of the last two; a search that returned from an existing collection has
\* made all three, the embedding exactly once and before the only query.
C28_SearchChecksBeforeEmbedding ==
    \A t \in Tasks : op[t] = "search" =>
        /\ IsPrefix(CallKinds(t), SearchCalls)
        /\ local[t].collection_exists # "yes" =>
              /\ Calls(t, "embed_query") = 0
              /\ Calls(t, "query_points") = 0
        /\ (local[t].collection_exists = "yes" /\ status[t] = "ok") =>
              /\ CallKinds(t) = SearchCalls
              /\ trace[t][2].texts = <<QueryText(provider, args[t].query)>>
              /\ trace[t][3].coll = local[t].collection_name

\* one search has returned from an absent collection, another from an
\* existing one
C28_Witness ==
    \E t, u \in Tasks :
        /\ op[t] = "search" /\ status[t] = "ok"
        /\ local[t].collection_exists = "no" /\ Len(trace[t]) = 1
        /\ op[u] = "search" /\ status[u] = "ok"
        /\ local[u].collection_exists = "yes" /\ Len(trace[u]) = 3

\* C29: one vector slot name serves all three uses.  The name under which
\* a collection is created, the name under which a point's vector is
\* upserted and the name a query searches with are each the provider's
\* get_vector_name(), so the schema of a collection the connector created,
\* the vectors of the points it stored and its queries agree.
C29_OneVectorSlot ==
    LET vector_name == get_vector_name(provider) IN
    /\ \A t \in Tasks : \A i \in DOMAIN trace[t] :
          trace[t][i].call \in {"create_collection", "upsert", "query_points"}
              => trace[t][i].vname = vector_name
    /\ \A c \in CollectionNames : Exists(remote, c) =>
          /\ remote[c].v.vectors.name = vector_name
          /\ \A point \in Points(remote, c) : point.vector.name = vector_name

\* a store has created a collection and added a point, and a search of that
\* collection has returned
C29_Witness ==
    \E t, u \in Tasks :
        /\ op[t] = "store" /\ status[t] = "ok" /\ Calls(t, "create_collection") = 1
        /\ op[u] = "search" /\ status[u] = "ok" /\ Calls(u, "query_points") = 1
        /\ SameCollection(t, u)
        /\ Points(remote, local[t].collection_name) # {}

\* The store of task t has failed in embed_documents or in upsert.
FailedAfterSetup(t) ==
    /\ op[t] = "store" /\ pc[t] = "done" /\ status[t] # "ok"
    /\ trace[t] # <<>>
    /\ trace[t][Len(trace[t])].call \in {"embed_documents", "upsert"}

\* C30: store is not atomic, yet a failed store adds no point.  The step in
\* which a store fails in embed_documents or in upsert leaves the points of
\* every collection as they were; the collection such a store created is
\* still there, empty if nothing else was stored in it; and a later store on
\* that name makes no create_collection call.
C30_FailedStoreAddsNoPoint ==
    /\ [][\A t \in Tasks :
            (/\ op[t] = "store" /\ pc[t] \in {"st_embed", "st_upsert"}
             /\ status'[t] \notin {"running", "ok"}) =>
                \A c \in CollectionNames :
                    /\ Exists(remote', c) = Exists(remote, c)
                    /\ Points(remote', c) = Points(remote, c)]_vars
    /\ [](\A t \in Tasks :
            (FailedAfterSetup(t) /\ Calls(t, "create_collection") = 1) =>
                LET c == local[t].collection_name IN
                /\ Exists(remote, c)
                /\ stored[c] = 0 => Points(remote, c) = {}
                /\ \A u \in Tasks :
                      (op[u] = "store" /\ t \in after[u] /\ SameCollection(t, u))
                          => Calls(u, "create_collection") = 0)

\* a store that created its collection failed in upsert, and a later store on
\* the same name has returned
C30_Witness ==
    \E t, u \in Tasks :
        /\ FailedAfterSetup(t) /\ Calls(t, "create_collection") = 1
        /\ Calls(t, "upsert") = 1
        /\ op[u] = "store" /\ t \in after[u] /\ SameCollection(t, u)
        /\ status[u] = "ok"
        /\ Cardinality(Points(remote, local[t].collection_name)) = 1

====
